---- MODULE Spec2Model ----
(***************************************************************************)
(* Model of main.py of HourlyAlertSystem (RealTimeTradeBot): the module's  *)
(* top level and main(), the news scan fetch_and_analyze_news with its     *)
(* dedup block, the watch-list functions, the option quote cache           *)
(* get_option_data, and the Telegram dispatcher send_telegram_alert with   *)
(* its tenacity retry decorator, as used by send_trade_alert.              *)
(*                                                                         *)
(* Time is counted in minutes.  Every thread is a Python thread running    *)
(* one of the module's functions; a `with lock:` block is an acquire step  *)
(* followed by the body, which releases the lock when it leaves the block. *)
(***************************************************************************)
EXTENDS Integers, Sequences, FiniteSets, TLC

(***************************************************************************)
(* Bounds of the model.                                                    *)
(***************************************************************************)
MaxQuoteNow == 20
MaxQuoteCalls == 3
MaxScanNow == 2880
MaxScans == 2
MaxArticles == 2
MaxSendCalls == 2
MaxRecipients == 2
MaxCmdCalls == 2
MaxSummaries == 1
MaxJobs == 2

(***************************************************************************)
(* Program constants.                                                      *)
(***************************************************************************)
QuoteTTL == 15
DedupWindow == 1440
SentHashesMaxLen == 1000
STOP_AFTER_ATTEMPT == 3
WAIT_MULTIPLIER == 1
WAIT_MIN == 4
WAIT_MAX == 10
PACING_SLEEP == 1
Infinity == 1000000

(***************************************************************************)
(* Values.                                                                 *)
(***************************************************************************)
Threads == {"main", "sched"}
Workers == {"web1", "web2"}
\* The scheduler's pool thread that runs the cron job of line 335.
Jobs == {"cron"}
AllThreads == (Threads \cup Workers) \cup Jobs
\* The thread whose scans run while the server's workers handle commands.
Pollers == {"sched"}
\* The threads that call the watch-list functions.
Callers == Workers \cup Pollers
Free == "free"
None == "None"
LIQUID_TICKERS == <<"AAPL", "TSLA">>
QuoteTickers == {"AAPL"}
AlertTickers == {"AAPL"}
AlertHeadlines == {"c1"}
Recipients == {"A", "B", "C"}
Contents == {"c1", "c2"}
QuoteTickSteps == {5}
ScanTickSteps == {720}

Min(a, b) == IF a < b THEN a ELSE b
Max(a, b) == IF a > b THEN a ELSE b
Abs(a) == IF a < 0 THEN 0 - a ELSE a
Range(s) == {s[i] : i \in 1..Len(s)}

RECURSIVE Pow2(_)
Pow2(n) == IF n = 0 THEN 1 ELSE 2 * Pow2(n - 1)

VARIABLES
  now,                      \* datetime.now(), in minutes
  down,                     \* recipients whose sendMessage POST fails
  CHAT_IDS,                 \* the configured recipient list
  ticker_list, ticker_list_lock,
  sent_hashes, sent_hashes_timestamps, sent_hashes_lock,
  option_cache, option_cache_timestamps, option_cache_lock,
  pc,                       \* position of each thread
  scan,                     \* locals of fetch_and_analyze_news, per thread
  quote,                    \* locals of get_option_data, per thread
  send,                     \* locals of send_trade_alert/send_telegram_alert
  dedupLog,                 \* history: every execution of the dedup block
  scanLog,                  \* history: the scans each thread has started
  quoteStats,               \* history: get_option_data calls, lookups, cache answers
  sendLog,                  \* history: every finished send_telegram_alert call
  obtainedAt,               \* history: when each cached tuple left the provider
  environ,                  \* os.environ, as the process was started
  invalid,                  \* recipients Telegram rejects for good (HTTP 400)
  daily_sentiment_scores, sentiment_scores_lock,
  cmd,                      \* locals of the watch-list functions, per thread
  summary                   \* locals of send_daily_summary

sharedVars == <<ticker_list, ticker_list_lock, sent_hashes,
                sent_hashes_timestamps, sent_hashes_lock>>
cacheVars == <<option_cache, option_cache_timestamps, option_cache_lock>>
envVars == <<down, CHAT_IDS, environ, invalid>>
webVars == <<daily_sentiment_scores, sentiment_scores_lock, cmd, summary>>
histVars == <<dedupLog, scanLog, quoteStats, sendLog, obtainedAt>>
vars == <<now, down, CHAT_IDS, ticker_list, ticker_list_lock, sent_hashes,
          sent_hashes_timestamps, sent_hashes_lock, option_cache,
          option_cache_timestamps, option_cache_lock, pc, scan, quote, send,
          dedupLog, scanLog, quoteStats, sendLog, obtainedAt, environ,
          invalid, daily_sentiment_scores, sentiment_scores_lock, cmd,
          summary>>

(***************************************************************************)
(* A Python dict as a function with a finite domain.                       *)
(***************************************************************************)
EmptyDict == [k \in {} |-> None]
DictSet(d, k, v) == (k :> v) @@ d

\* daily_sentiment_scores is iterated, so the model keeps its entries in
\* the order of the dict: a sequence of entries, appended to by the insert
\* of a new key; a deleted key leaves an unused entry behind, which an
\* iterator skips.  (A dict of this size is not resized.)
Unused == [key |-> "", scores |-> <<>>, live |-> FALSE]
EntryHas(d, k) == \E i \in 1..Len(d) : d[i].live /\ d[i].key = k
\* len(d)
EntryLen(d) == Cardinality({i \in 1..Len(d) : d[i].live})
EntryKeys(d) == {d[i].key : i \in {n \in 1..Len(d) : d[n].live}}
\* d[k] = v
EntrySet(d, k, v) ==
  IF EntryHas(d, k)
    THEN [i \in 1..Len(d) |->
            IF d[i].live /\ d[i].key = k THEN [d[i] EXCEPT !.scores = v]
            ELSE d[i]]
    ELSE Append(d, [key |-> k, scores |-> v, live |-> TRUE])
\* d.pop(k, None)
EntryPop(d, k) ==
  [i \in 1..Len(d) |-> IF d[i].live /\ d[i].key = k THEN Unused ELSE d[i]]
\* line 78: {ticker: [] for ticker in ticker_list}, from position i on
RECURSIVE ScoresFrom(_, _, _)
ScoresFrom(d, tickers, i) ==
  IF i > Len(tickers) THEN d
  ELSE ScoresFrom(EntrySet(d, tickers[i], <<>>), tickers, i + 1)
EmptyScores(tickers) == ScoresFrom(<<>>, tickers, 1)

(***************************************************************************)
(* The environment and the module's top level (lines 40-78).               *)
(*                                                                         *)
(* A string of the environment is a sequence of atoms; the atom "," is the *)
(* comma.  In the values considered every stretch between two commas holds *)
(* at most one atom, so a piece of a split is "" or one atom.              *)
(***************************************************************************)
Comma == ","
DefaultChatId == "1654552128"

\* os.environ[name]: unset, or set to a string.
EnvUnset == [set |-> FALSE, value |-> <<>>]
EnvStr(v) == [set |-> TRUE, value |-> v]

\* The string of a stretch between two commas.
Piece(atoms) == IF atoms = <<>> THEN "" ELSE atoms[1]

\* str.split(","): the pieces between the commas, in order; the empty
\* string splits into the one piece "".
RECURSIVE SplitFrom(_, _, _)
SplitFrom(s, i, cur) ==
  IF i > Len(s) THEN <<Piece(cur)>>
  ELSE IF s[i] = Comma THEN <<Piece(cur)>> \o SplitFrom(s, i + 1, <<>>)
  ELSE SplitFrom(s, i + 1, Append(cur, s[i]))
Split(s) == SplitFrom(s, 1, <<>>)

\* ",".join(l)
RECURSIVE CommaJoin(_)
CommaJoin(l) ==
  IF l = <<>> THEN <<>>
  ELSE IF Len(l) = 1 THEN <<l[1]>>
  ELSE <<l[1], Comma>> \o CommaJoin(Tail(l))

\* os.getenv(name, default) followed by .split(","), default being a string
GetenvSplit(e, default) == Split(IF e.set THEN e.value ELSE default)

\* `not x` for x = os.getenv(name): None and "" are false.
Missing(e) == ~e.set \/ e.value = <<>>

\* `not l` for a list
EmptyList(l) == Len(l) = 0

\* The environment of a process that runs with these recipients and tickers.
EnvironOf(chat_ids, tickers) ==
  [TELEGRAM_BOT_TOKEN |-> EnvStr(<<"token">>),
   TELEGRAM_CHAT_IDS |-> EnvStr(CommaJoin(chat_ids)),
   FINNHUB_API_KEY |-> EnvStr(<<"key">>),
   LIQUID_TICKERS |-> EnvStr(CommaJoin(tickers))]

\* The environments a process is started in.
BootEnvirons ==
  [TELEGRAM_BOT_TOKEN : {EnvUnset, EnvStr(<<>>), EnvStr(<<"token">>)},
   TELEGRAM_CHAT_IDS : {EnvUnset, EnvStr(<<>>), EnvStr(<<"A">>),
                        EnvStr(<<"A", Comma, "B">>)},
   FINNHUB_API_KEY : {EnvUnset, EnvStr(<<>>), EnvStr(<<"key">>)},
   LIQUID_TICKERS : {EnvUnset}]

\* lines 41-78: the module's top level reads the environment, validates it
\* and builds the module's state; a ValueError of lines 49-60 ends the
\* process before line 63.  Lines 345-346 then call main().
ModuleImport ==
  LET chat_ids == GetenvSplit(environ.TELEGRAM_CHAT_IDS, <<DefaultChatId>>)
      tickers == GetenvSplit(environ.LIQUID_TICKERS, CommaJoin(LIQUID_TICKERS))
      raises == \/ Missing(environ.TELEGRAM_BOT_TOKEN)
                \/ EmptyList(chat_ids)
                \/ Missing(environ.FINNHUB_API_KEY)
  IN  /\ pc["main"] = "unstarted"
      /\ CHAT_IDS' = chat_ids
      /\ IF raises
           THEN /\ pc' = [pc EXCEPT !["main"] = "halted"]
                /\ UNCHANGED <<ticker_list, daily_sentiment_scores>>
           ELSE /\ pc' = [pc EXCEPT !["main"] = "main"]
                /\ ticker_list' = tickers
                /\ daily_sentiment_scores' = EmptyScores(tickers)
      /\ UNCHANGED <<now, down, environ, invalid, ticker_list_lock,
                     sent_hashes, sent_hashes_timestamps, sent_hashes_lock,
                     cacheVars, sentiment_scores_lock, cmd, summary, scan,
                     quote, send, histVars>>

\* lines 331-337: main() starts the scheduler, whose thread runs the interval
\* job from then on, and goes on to the forced scan.
main ==
  /\ pc["main"] = "main"
  /\ pc' = [pc EXCEPT !["main"] = "idle", !["sched"] = "idle"]
  /\ UNCHANGED <<now, envVars, webVars, sharedVars, cacheVars, scan, quote,
                 send, histVars>>

(***************************************************************************)
(* Texts, analyze_sentiment (lines 87-100) and the threshold of line 303.  *)
(*                                                                         *)
(* A text is a sequence of tokens separated by blanks.  Scores are in      *)
(* tenths: 0.5 is 5.                                                       *)
(***************************************************************************)
SENTIMENT_THRESHOLD == 5
POSITIVE_SCORE == 5
NEGATIVE_SCORE == -5
NEUTRAL_SCORE == 0

positive_words == {"growth", "profit", "rise", "up", "gain", "strong", "bullish"}
negative_words == {"loss", "decline", "down", "drop", "weak", "bearish", "fall"}

Vocabulary == {"AAPL", "aapl", "TSLA", "AAPLX", "profit", "drop", "supply",
               "flat"}

\* str.lower() and str.upper() of a token
Lower(token) ==
  CASE token = "AAPL" -> "aapl"
    [] token = "TSLA" -> "tsla"
    [] token = "AAPLX" -> "aaplx"
    [] OTHER -> token
Upper(token) ==
  CASE token = "aapl" -> "AAPL"
    [] token = "profit" -> "PROFIT"
    [] token = "drop" -> "DROP"
    [] token = "supply" -> "SUPPLY"
    [] token = "flat" -> "FLAT"
    [] OTHER -> token

\* The keywords that occur in a lower-case token as substrings, one entry
\* per occurrence: str.count counts substrings, so "supply" counts for "up".
KeywordsIn(token) ==
  CASE token = "profit" -> <<"profit">>
    [] token = "drop" -> <<"drop">>
    [] token = "supply" -> <<"up">>
    [] OTHER -> <<>>

\* sum(text.count(word) for word in words), text being lower case
RECURSIVE CountWords(_, _)
CountWords(text, words) ==
  IF text = <<>> THEN 0
  ELSE Len(SelectSeq(KeywordsIn(text[1]), LAMBDA w : w \in words))
         + CountWords(Tail(text), words)

\* lines 87-100
analyze_sentiment(text) ==
  LET lowered == [i \in 1..Len(text) |-> Lower(text[i])]
      pos_count == CountWords(lowered, positive_words)
      neg_count == CountWords(lowered, negative_words)
  IN  IF pos_count > neg_count THEN POSITIVE_SCORE
      ELSE IF neg_count > pos_count THEN NEGATIVE_SCORE
      ELSE NEUTRAL_SCORE

\* line 303: abs(sentiment) >= SENTIMENT_THRESHOLD
PassesThreshold(sentiment) == Abs(sentiment) >= SENTIMENT_THRESHOLD

\* The text of each article content of the scans.
Text(content) ==
  CASE content = "c1" -> <<"AAPL", "profit">>
    [] content = "c2" -> <<"TSLA", "flat">>
    [] OTHER -> <<>>

(***************************************************************************)
(* The watch-list functions: verify_symbol, add_ticker, remove_ticker,     *)
(* list_tickers (lines 118-155) and match_ticker (lines 158-160).  The     *)
(* command handler of lines 315-328 calls the first three on the server's  *)
(* worker threads, with the symbol in upper case.                          *)
(***************************************************************************)
\* re.search(r'\b' + re.escape(ticker) + r'\b', text.upper()): the ticker is
\* one of the words of the upper-case text.
Search(ticker, text) == \E i \in 1..Len(text) : Upper(text[i]) = ticker

\* [ticker for ticker in tickers if re.search(...)], from position i on
RECURSIVE MatchFrom(_, _, _)
MatchFrom(tickers, i, text) ==
  IF i > Len(tickers) THEN <<>>
  ELSE (IF Search(tickers[i], text) THEN <<tickers[i]>> ELSE <<>>)
         \o MatchFrom(tickers, i + 1, text)

\* list.remove(x): the list without the first x
RECURSIVE ListRemove(_, _)
ListRemove(l, x) ==
  IF l = <<>> THEN <<>>
  ELSE IF l[1] = x THEN Tail(l)
  ELSE <<l[1]>> \o ListRemove(Tail(l), x)

\* What requests.get(quote_url) can do in verify_symbol: raise, or give a
\* body without 'c', with c = 0, or with a price.
VerifyResponses ==
  { [ok |-> FALSE, has_c |-> FALSE, c |-> 0],
    [ok |-> TRUE, has_c |-> FALSE, c |-> 0],
    [ok |-> TRUE, has_c |-> TRUE, c |-> 0],
    [ok |-> TRUE, has_c |-> TRUE, c |-> 100] }

\* lines 120-128: 'c' in data and data['c'] != 0; False on an exception
verify_symbol(resp) == resp.ok /\ resp.has_c /\ resp.c # 0

Symbols == {"AAPL", "NVDA"}
MatchTexts == { <<"AAPL", "profit">>, <<"aapl", "TSLA">>, <<"AAPLX">> }

IdleCmd ==
  [op |-> "", symbol |-> "", text |-> <<>>, i |-> 0, result |-> <<>>,
   reply |-> "", calls |-> 0]

CmdPcs == {"at_lock", "at_check", "at_verify", "at_append", "at_scores",
           "rt_lock", "rt_check", "rt_remove", "rt_pop",
           "lt_lock", "lt_list", "mt_lock", "mt_iter", "tk_return"}

CmdCallsStarted ==
  cmd["web1"].calls + cmd["web2"].calls + cmd["sched"].calls

\* A thread begins one of the watch-list functions.
BeginCmd(t, op, symbol, text, first) ==
  /\ pc[t] = "idle"
  /\ CmdCallsStarted < MaxCmdCalls
  /\ pc' = [pc EXCEPT ![t] = first]
  /\ cmd' = [cmd EXCEPT ![t] = [IdleCmd EXCEPT !.op = op, !.symbol = symbol,
                                                !.text = text,
                                                !.calls = cmd[t].calls + 1]]
  /\ UNCHANGED <<now, envVars, sharedVars, cacheVars, daily_sentiment_scores,
                 sentiment_scores_lock, summary, scan, quote, send, histVars>>

\* `with ticker_list_lock:` that does not wait for the lock.
TakeTickerLockNoWait(t, from, to) ==
  /\ pc[t] = from
  /\ ticker_list_lock' = t
  /\ pc' = [pc EXCEPT ![t] = to]
  /\ UNCHANGED <<now, envVars, webVars, ticker_list, sent_hashes,
                 sent_hashes_timestamps, sent_hashes_lock, cacheVars, scan,
                 quote, send, histVars>>

\* `with ticker_list_lock:` (lines 132, 143, 152, 159): the thread waits for
\* the lock, takes it and enters the block.
TakeTickerLock(t, from, to) ==
  /\ pc[t] = from
  /\ ticker_list_lock = Free
  /\ ticker_list_lock' = t
  /\ pc' = [pc EXCEPT ![t] = to]
  /\ UNCHANGED <<now, envVars, webVars, ticker_list, sent_hashes,
                 sent_hashes_timestamps, sent_hashes_lock, cacheVars, scan,
                 quote, send, histVars>>

\* A step inside the `with ticker_list_lock:` block of a watch-list
\* function; leaving the block releases the lock.
CmdStep(t, from, to, leaves, tickers, scores, c) ==
  /\ pc[t] = from
  /\ ticker_list_lock = t
  /\ pc' = [pc EXCEPT ![t] = to]
  /\ ticker_list_lock' = IF leaves THEN Free ELSE t
  /\ ticker_list' = tickers
  /\ daily_sentiment_scores' = scores
  /\ cmd' = [cmd EXCEPT ![t] = c]
  /\ UNCHANGED <<now, envVars, sentiment_scores_lock, summary, sent_hashes,
                 sent_hashes_timestamps, sent_hashes_lock, cacheVars, scan,
                 quote, send, histVars>>

\* add_ticker(symbol), lines 130-139
add_ticker(t, symbol) == BeginCmd(t, "add", symbol, <<>>, "at_lock")
AtAcquire(t) == TakeTickerLock(t, "at_lock", "at_check")

\* lines 133-134
AtCheck(t) ==
  IF cmd[t].symbol \in Range(ticker_list)
    THEN CmdStep(t, "at_check", "tk_return", TRUE, ticker_list,
                 daily_sentiment_scores,
                 [cmd[t] EXCEPT !.reply = "already exists"])
    ELSE CmdStep(t, "at_check", "at_verify", FALSE, ticker_list,
                 daily_sentiment_scores, cmd[t])

\* line 135 with lines 118-128: the request of verify_symbol, inside the
\* block; line 139 when the symbol is not valid
AtVerify(t) ==
  \E resp \in VerifyResponses :
    IF verify_symbol(resp)
      THEN CmdStep(t, "at_verify", "at_append", FALSE, ticker_list,
                   daily_sentiment_scores, cmd[t])
      ELSE CmdStep(t, "at_verify", "tk_return", TRUE, ticker_list,
                   daily_sentiment_scores,
                   [cmd[t] EXCEPT !.reply = "not a valid symbol"])

\* line 136
AtAppend(t) ==
  CmdStep(t, "at_append", "at_scores", FALSE,
          Append(ticker_list, cmd[t].symbol), daily_sentiment_scores, cmd[t])

\* lines 137-138
AtScores(t) ==
  CmdStep(t, "at_scores", "tk_return", TRUE, ticker_list,
          EntrySet(daily_sentiment_scores, cmd[t].symbol, <<>>),
          [cmd[t] EXCEPT !.reply = "added"])

\* remove_ticker(symbol), lines 141-148
remove_ticker(t, symbol) == BeginCmd(t, "remove", symbol, <<>>, "rt_lock")
RtAcquire(t) == TakeTickerLock(t, "rt_lock", "rt_check")

\* lines 144-145
RtCheck(t) ==
  IF cmd[t].symbol \notin Range(ticker_list)
    THEN CmdStep(t, "rt_check", "tk_return", TRUE, ticker_list,
                 daily_sentiment_scores,
                 [cmd[t] EXCEPT !.reply = "not in the list"])
    ELSE CmdStep(t, "rt_check", "rt_remove", FALSE, ticker_list,
                 daily_sentiment_scores, cmd[t])

\* line 146
RtRemove(t) ==
  CmdStep(t, "rt_remove", "rt_pop", FALSE,
          ListRemove(ticker_list, cmd[t].symbol), daily_sentiment_scores,
          cmd[t])

\* lines 147-148
RtPop(t) ==
  CmdStep(t, "rt_pop", "tk_return", TRUE, ticker_list,
          EntryPop(daily_sentiment_scores, cmd[t].symbol),
          [cmd[t] EXCEPT !.reply = "removed"])

\* list_tickers(), lines 150-155
list_tickers(t) == BeginCmd(t, "list", "", <<>>, "lt_lock")
LtAcquire(t) == TakeTickerLock(t, "lt_lock", "lt_list")
LtList(t) ==
  CmdStep(t, "lt_list", "tk_return", TRUE, ticker_list,
          daily_sentiment_scores,
          [cmd[t] EXCEPT !.result = ticker_list,
                         !.reply = IF EmptyList(ticker_list)
                                     THEN "No tickers in the list."
                                     ELSE "List of tickers"])

\* match_ticker(text), lines 158-160: the comprehension visits ticker_list
\* position by position, inside the block.
match_ticker(t, text) == BeginCmd(t, "match", "", text, "mt_lock")
MtAcquire(t) ==
  /\ cmd' = [cmd EXCEPT ![t].i = 1]
  /\ pc[t] = "mt_lock"
  /\ ticker_list_lock = Free
  /\ ticker_list_lock' = t
  /\ pc' = [pc EXCEPT ![t] = "mt_iter"]
  /\ UNCHANGED <<now, envVars, daily_sentiment_scores, sentiment_scores_lock,
                 summary, ticker_list, sent_hashes, sent_hashes_timestamps,
                 sent_hashes_lock, cacheVars, scan, quote, send, histVars>>
MtIter(t) ==
  LET i == cmd[t].i
  IN  IF i > Len(ticker_list)
        THEN CmdStep(t, "mt_iter", "tk_return", TRUE, ticker_list,
                     daily_sentiment_scores, cmd[t])
        ELSE CmdStep(t, "mt_iter", "mt_iter", FALSE, ticker_list,
                     daily_sentiment_scores,
                     [cmd[t] EXCEPT
                        !.i = i + 1,
                        !.result = @ \o MatchFrom(<<ticker_list[i]>>, 1,
                                                  cmd[t].text)])

\* The function has returned to its caller.
TkReturn(t) ==
  /\ pc[t] = "tk_return"
  /\ pc' = [pc EXCEPT ![t] = "idle"]
  /\ cmd' = [cmd EXCEPT ![t] = [IdleCmd EXCEPT !.calls = cmd[t].calls]]
  /\ UNCHANGED <<now, envVars, sharedVars, cacheVars, daily_sentiment_scores,
                 sentiment_scores_lock, summary, scan, quote, send, histVars>>

(***************************************************************************)
(* get_option_data (lines 178-211).                                        *)
(*                                                                         *)
(* A tuple (atm_strike, option_price); (None, None) is NoneTuple.          *)
(***************************************************************************)
Tuple(s, p) == [none |-> FALSE, strike |-> s, price |-> p]
NoneTuple == [none |-> TRUE, strike |-> 0, price |-> 0]

Opt(s, l, a) == [strike |-> s, lastPrice |-> l, ask |-> a]

\* What requests.get(quote_url).json() can do: raise, or give a quote whose
\* 'c' is the current price (0 when the provider has none).
QuoteResponses ==
  { [ok |-> FALSE, c |-> 0], [ok |-> TRUE, c |-> 0], [ok |-> TRUE, c |-> 100] }

\* What requests.get(option_url).json() can do: raise, or give the CALL
\* options of the chain in the order the loops of lines 195-196 visit them.
ChainResponses ==
  { [ok |-> FALSE, options |-> <<>>],
    [ok |-> TRUE, options |-> <<>>],
    [ok |-> TRUE, options |-> <<Opt(100, 5, 6)>>],
    [ok |-> TRUE, options |-> <<Opt(90, 0, 4), Opt(110, 7, 0)>>],
    [ok |-> TRUE, options |-> <<Opt(0, 1, 1)>>] }

\* Python truth value of a number.
Truthy(x) == x # 0

\* option.get('lastPrice', 0) or option.get('ask', 0) or 0   (line 202)
OptionPrice(option) ==
  IF Truthy(option.lastPrice) THEN option.lastPrice
  ELSE IF Truthy(option.ask) THEN option.ask ELSE 0

\* The loop of lines 192-202 from option i on; acc holds min_diff,
\* atm_strike (set = FALSE while it is None) and option_price.
RECURSIVE AtmScan(_, _, _, _)
AtmScan(options, i, current_price, acc) ==
  IF i > Len(options) THEN acc
  ELSE LET strike == options[i].strike
           diff == Abs(strike - current_price)
       IN  IF diff < acc.min_diff
             THEN AtmScan(options, i + 1, current_price,
                          [min_diff |-> diff, set |-> TRUE, atm_strike |-> strike,
                           option_price |-> OptionPrice(options[i])])
             ELSE AtmScan(options, i + 1, current_price, acc)

\* result = (atm_strike, option_price) if atm_strike else (None, None)
AtmResult(options, current_price) ==
  LET acc == AtmScan(options, 1, current_price,
                     [min_diff |-> Infinity, set |-> FALSE, atm_strike |-> 0,
                      option_price |-> 0])
  IN  IF acc.set /\ Truthy(acc.atm_strike)
        THEN Tuple(acc.atm_strike, acc.option_price)
        ELSE NoneTuple

\* option_cache_timestamps[ticker] > datetime.now() - timedelta(minutes=15)
StillFreshLate(stamp, t) == stamp >= t - QuoteTTL
StillFresh(stamp, t) == stamp > t - QuoteTTL

NoSeen == [present |-> FALSE, value |-> NoneTuple, stamp |-> 0, obtained |-> 0]
IdleQuote ==
  [ticker |-> "", caller |-> "", current_price |-> 0, result |-> NoneTuple,
   hit |-> FALSE, calls |-> 0, checkedAt |-> 0, seen |-> NoSeen,
   obtained |-> 0, raised |-> FALSE]

QuotePcs == {"god_lock1", "god_check", "god_quote", "god_chain", "god_lock2",
             "god_store", "god_stamp", "god_return"}
QuoteCallsStarted ==
  quoteStats.returned + Cardinality({t \in Threads : pc[t] \in QuotePcs})

\* A thread calls get_option_data(ticker) (line 178).
get_option_data(t, ticker) ==
  /\ pc[t] = "idle"
  /\ QuoteCallsStarted < MaxQuoteCalls
  /\ pc' = [pc EXCEPT ![t] = "god_lock1"]
  /\ quote' = [quote EXCEPT ![t] = [IdleQuote EXCEPT !.ticker = ticker,
                                                      !.caller = "direct"]]
  /\ UNCHANGED <<now, envVars, webVars, sharedVars, cacheVars, scan, send, histVars>>

\* line 179: with option_cache_lock
GodAcquireCheck(t) ==
  /\ pc[t] = "god_lock1"
  /\ option_cache_lock = Free
  /\ option_cache_lock' = t
  /\ pc' = [pc EXCEPT ![t] = "god_check"]
  /\ UNCHANGED <<now, envVars, webVars, sharedVars, option_cache,
                 option_cache_timestamps, scan, quote, send, histVars>>

\* A freshness test that releases the lock only when it returns the cached
\* tuple: the lookups and the store follow with the lock held.
GodCheckKeepsLock(t) ==
  LET ticker == quote[t].ticker
      present == ticker \in DOMAIN option_cache
      stamped == ticker \in DOMAIN option_cache_timestamps
      seen == IF present /\ stamped
                THEN [present |-> TRUE, value |-> option_cache[ticker],
                      stamp |-> option_cache_timestamps[ticker],
                      obtained |-> obtainedAt[ticker]]
                ELSE NoSeen
  IN  /\ pc[t] = "god_check"
      /\ option_cache_lock = t
      /\ option_cache_lock' = IF present /\ stamped
                                /\ StillFresh(option_cache_timestamps[ticker], now)
                              THEN Free ELSE t
      /\ IF present /\ ~stamped
           THEN /\ pc' = [pc EXCEPT ![t] = "god_return"]
                /\ quote' = [quote EXCEPT ![t].raised = TRUE,
                                          ![t].checkedAt = now]
           ELSE IF present /\ StillFresh(option_cache_timestamps[ticker], now)
             THEN /\ pc' = [pc EXCEPT ![t] = "god_return"]
                  /\ quote' = [quote EXCEPT ![t].result = option_cache[ticker],
                                            ![t].hit = TRUE,
                                            ![t].checkedAt = now,
                                            ![t].seen = seen]
             ELSE /\ pc' = [pc EXCEPT ![t] = "god_quote"]
                  /\ quote' = [quote EXCEPT ![t].checkedAt = now,
                                            ![t].seen = seen]
      /\ UNCHANGED <<now, envVars, webVars, sharedVars, option_cache,
                     option_cache_timestamps, scan, send, histVars>>

\* lines 180-181: the freshness test; a fresh entry is returned as it is.
\* A ticker of option_cache without a timestamp is a KeyError, raised
\* outside the try block.
GodCheck(t) ==
  LET ticker == quote[t].ticker
      present == ticker \in DOMAIN option_cache
      stamped == ticker \in DOMAIN option_cache_timestamps
      seen == IF present /\ stamped
                THEN [present |-> TRUE, value |-> option_cache[ticker],
                      stamp |-> option_cache_timestamps[ticker],
                      obtained |-> obtainedAt[ticker]]
                ELSE NoSeen
  IN  /\ pc[t] = "god_check"
      /\ option_cache_lock = t
      /\ option_cache_lock' = Free
      /\ IF present /\ ~stamped
           THEN /\ pc' = [pc EXCEPT ![t] = "god_return"]
                /\ quote' = [quote EXCEPT ![t].raised = TRUE,
                                          ![t].checkedAt = now]
           ELSE IF present /\ StillFresh(option_cache_timestamps[ticker], now)
             THEN /\ pc' = [pc EXCEPT ![t] = "god_return"]
                  /\ quote' = [quote EXCEPT ![t].result = option_cache[ticker],
                                            ![t].hit = TRUE,
                                            ![t].checkedAt = now,
                                            ![t].seen = seen]
             ELSE /\ pc' = [pc EXCEPT ![t] = "god_quote"]
                  /\ quote' = [quote EXCEPT ![t].checkedAt = now,
                                            ![t].seen = seen]
      /\ UNCHANGED <<now, envVars, webVars, sharedVars, option_cache,
                     option_cache_timestamps, scan, send, histVars>>

\* lines 184-188: the quote request.  An exception, or a quote without a
\* current price (ValueError), ends in the handler of lines 209-211.
GodQuoteRequest(t) ==
  /\ pc[t] = "god_quote"
  /\ \E resp \in QuoteResponses :
       IF resp.ok /\ Truthy(resp.c)
         THEN /\ pc' = [pc EXCEPT ![t] = "god_chain"]
              /\ quote' = [quote EXCEPT ![t].current_price = resp.c,
                                        ![t].calls = @ + 1]
         ELSE /\ pc' = [pc EXCEPT ![t] = "god_return"]
              /\ quote' = [quote EXCEPT ![t].result = NoneTuple,
                                        ![t].calls = @ + 1]
  /\ UNCHANGED <<now, envVars, webVars, sharedVars, cacheVars, scan, send, histVars>>

\* lines 190-204: the option chain request and the choice of the strike
\* nearest to the current price.
GodChainRequest(t) ==
  /\ pc[t] = "god_chain"
  /\ \E resp \in ChainResponses :
       IF resp.ok
         THEN /\ pc' = [pc EXCEPT ![t] = "god_lock2"]
              /\ quote' = [quote EXCEPT
                             ![t].result = AtmResult(resp.options,
                                                     quote[t].current_price),
                             ![t].obtained = now]
         ELSE /\ pc' = [pc EXCEPT ![t] = "god_return"]
              /\ quote' = [quote EXCEPT ![t].result = NoneTuple]
  /\ UNCHANGED <<now, envVars, webVars, sharedVars, cacheVars, scan, send, histVars>>

\* line 205: with option_cache_lock
GodAcquireStore(t) ==
  /\ pc[t] = "god_lock2"
  /\ option_cache_lock = Free
  /\ option_cache_lock' = t
  /\ pc' = [pc EXCEPT ![t] = "god_store"]
  /\ UNCHANGED <<now, envVars, webVars, sharedVars, option_cache,
                 option_cache_timestamps, scan, quote, send, histVars>>

\* The store of line 206 in a block of its own, which ends before line 207.
GodStoreResultUnlocked(t) ==
  /\ pc[t] = "god_store"
  /\ option_cache_lock = t
  /\ option_cache' = DictSet(option_cache, quote[t].ticker, quote[t].result)
  /\ option_cache_lock' = Free
  /\ pc' = [pc EXCEPT ![t] = "god_stamp"]
  /\ UNCHANGED <<now, envVars, webVars, sharedVars, option_cache_timestamps,
                 scan, quote, send, histVars>>

\* line 206: option_cache[ticker] = result
GodStoreResult(t) ==
  /\ pc[t] = "god_store"
  /\ option_cache_lock = t
  /\ option_cache' = DictSet(option_cache, quote[t].ticker, quote[t].result)
  /\ pc' = [pc EXCEPT ![t] = "god_stamp"]
  /\ UNCHANGED <<now, envVars, webVars, sharedVars, option_cache_timestamps,
                 option_cache_lock, scan, quote, send, histVars>>

\* line 207: option_cache_timestamps[ticker] = datetime.now(); the block ends
GodStoreTimestamp(t) ==
  /\ pc[t] = "god_stamp"
  /\ option_cache_lock = t
  /\ option_cache_timestamps' =
       DictSet(option_cache_timestamps, quote[t].ticker, now)
  /\ obtainedAt' = DictSet(obtainedAt, quote[t].ticker, quote[t].obtained)
  /\ option_cache_lock' = Free
  /\ pc' = [pc EXCEPT ![t] = "god_return"]
  /\ UNCHANGED <<now, envVars, webVars, sharedVars, option_cache, scan, quote, send,
                 dedupLog, scanLog, quoteStats, sendLog>>

\* lines 181, 208, 211: the call returns to a direct caller.
GodReturn(t) ==
  /\ pc[t] = "god_return"
  /\ quote[t].caller = "direct"
  /\ quoteStats' = [quoteStats EXCEPT !.returned = @ + 1,
                                     !.lookups = @ + quote[t].calls,
                                     !.served = @ + (IF quote[t].hit THEN 1 ELSE 0)]
  /\ quote' = [quote EXCEPT ![t] = IdleQuote]
  /\ pc' = [pc EXCEPT ![t] = "idle"]
  /\ UNCHANGED <<now, envVars, webVars, sharedVars, cacheVars, scan, send,
                 dedupLog, scanLog, sendLog, obtainedAt>>

\* The clock, while quotes are looked up.
TickQuote ==
  /\ \E d \in QuoteTickSteps : now + d <= MaxQuoteNow /\ now' = now + d
  /\ UNCHANGED <<envVars, webVars, sharedVars, cacheVars, pc, scan, quote, send,
                 histVars>>

(***************************************************************************)
(* send_telegram_alert (lines 103-115) under                               *)
(* @retry(stop=stop_after_attempt(3), wait=wait_exponential(1, 4, 10)),    *)
(* and send_trade_alert (lines 214-238), which calls it.                   *)
(*                                                                         *)
(* The decorator wraps the whole function: an exception that leaves the    *)
(* loop over chat_ids ends the attempt, and the next attempt calls the     *)
(* function again, from the first chat id.  After the last attempt the     *)
(* decorator raises RetryError to the caller.                              *)
(***************************************************************************)
\* wait_exponential: the sleep after failed attempt number n.
wait_exponential(attempt_number) ==
  Max(Max(0, WAIT_MIN),
      Min(WAIT_MULTIPLIER * Pow2(attempt_number - 1), WAIT_MAX))

\* stop_after_attempt
stop_after_attempt(attempt_number) == attempt_number >= STOP_AFTER_ATTEMPT

\* The recipient lists CHAT_IDS can be: the chat ids of the environment
\* variable, in its order.
RecipientLists ==
  { l \in UNION { [1..n -> Recipients] : n \in 1..MaxRecipients } :
      \A i, j \in 1..Len(l) : i # j => l[i] # l[j] }

\* "Bullish" if sentiment > 0 else "Bearish"
Direction(sentiment) == IF sentiment > 0 THEN "Bullish" ELSE "Bearish"

\* The f-string of lines 221-237: the values it renders.
Render(ticker, headline, sentiment, source_name, tuple) ==
  [headline |-> headline, direction |-> Direction(sentiment),
   source |-> source_name, ticker |-> ticker, strike |-> tuple.strike,
   price |-> tuple.price, sentiment |-> sentiment]

NoMessage ==
  [headline |-> "", direction |-> "", source |-> "", ticker |-> "",
   strike |-> 0, price |-> 0, sentiment |-> 0]

IdleSend ==
  [ticker |-> "", headline |-> "", sentiment |-> 0, source |-> "",
   message |-> NoMessage, chat_ids |-> <<>>, attempt_number |-> 0, i |-> 0,
   posts |-> [r \in Recipients |-> 0],
   delivered |-> [r \in Recipients |-> 0],
   waits |-> <<>>, slept |-> 0, outcome |-> ""]

SendPcs == {"sta_post", "sta_backoff", "sta_return"}
AlertCallsStarted ==
  sendLog.finished + sendLog.skipped
    + Cardinality({t \in Threads : pc[t] \in QuotePcs \cup SendPcs})

\* A thread calls send_trade_alert(ticker, headline, sentiment, source_name);
\* line 216 calls get_option_data(ticker).
send_trade_alert(t, ticker, headline, sentiment, source_name) ==
  /\ pc[t] = "idle"
  /\ AlertCallsStarted < MaxSendCalls
  /\ pc' = [pc EXCEPT ![t] = "god_lock1"]
  /\ quote' = [quote EXCEPT ![t] = [IdleQuote EXCEPT
                                      !.ticker = ticker,
                                      !.caller = "send_trade_alert"]]
  /\ send' = [send EXCEPT ![t] = [IdleSend EXCEPT
                                    !.ticker = ticker, !.headline = headline,
                                    !.sentiment = sentiment,
                                    !.source = source_name]]
  /\ UNCHANGED <<now, envVars, webVars, sharedVars, cacheVars, scan, histVars>>

\* lines 216-219: get_option_data has returned without a strike or a price
\* and the alert is skipped; or it has raised, and so does send_trade_alert.
TradeAlertSkip(t) ==
  /\ pc[t] = "god_return"
  /\ quote[t].caller = "send_trade_alert"
  /\ quote[t].raised \/ quote[t].result.none
  /\ pc' = [pc EXCEPT ![t] = "idle"]
  /\ quote' = [quote EXCEPT ![t] = IdleQuote]
  /\ send' = [send EXCEPT ![t] = IdleSend]
  /\ sendLog' = IF quote[t].raised
                  THEN [sendLog EXCEPT !.finished = @ + 1, !.raised = @ + 1]
                  ELSE [sendLog EXCEPT !.skipped = @ + 1]
  /\ UNCHANGED <<now, envVars, webVars, sharedVars, cacheVars, scan, dedupLog, scanLog,
                 quoteStats, obtainedAt>>

\* lines 216-238: get_option_data has returned a tuple; the message is
\* rendered and send_telegram_alert(message) begins its first attempt, with
\* chat_ids = CHAT_IDS.
TradeAlertSend(t) ==
  /\ pc[t] = "god_return"
  /\ quote[t].caller = "send_trade_alert"
  /\ ~quote[t].raised /\ ~quote[t].result.none
  /\ pc' = [pc EXCEPT ![t] = "sta_post"]
  /\ send' = [send EXCEPT
                ![t].message = Render(send[t].ticker, send[t].headline,
                                      send[t].sentiment, send[t].source,
                                      quote[t].result),
                ![t].chat_ids = CHAT_IDS,
                ![t].attempt_number = 1,
                ![t].i = 1]
  /\ quote' = [quote EXCEPT ![t] = IdleQuote]
  /\ UNCHANGED <<now, envVars, webVars, sharedVars, cacheVars, scan, histVars>>

\* The POST of line 109 to a chat id: it fails for the recipients of down.
PostSucceeds(chat_id) == chat_id \notin down

\* lines 105-115, one turn of the loop over chat_ids: the POST to
\* chat_ids[i].  A success is followed by the pacing sleep and the next chat
\* id, or by the return after the last one.  A failure is logged and raised
\* again (line 115): the attempt ends, and the decorator either sleeps before
\* the next attempt or, after the last attempt, raises RetryError.
StaPost(t) ==
  LET s == send[t]
      chat_id == s.chat_ids[s.i]
  IN  /\ pc[t] = "sta_post"
      /\ IF PostSucceeds(chat_id)
           THEN /\ send' = [send EXCEPT
                              ![t].posts[chat_id] = @ + 1,
                              ![t].delivered[chat_id] = @ + 1,
                              ![t].slept = @ + PACING_SLEEP,
                              ![t].i = @ + 1,
                              ![t].outcome = IF s.i = Len(s.chat_ids)
                                               THEN "returned" ELSE @]
                /\ pc' = [pc EXCEPT ![t] = IF s.i = Len(s.chat_ids)
                                             THEN "sta_return"
                                             ELSE "sta_post"]
           ELSE IF stop_after_attempt(s.attempt_number)
             THEN /\ send' = [send EXCEPT ![t].posts[chat_id] = @ + 1,
                                          ![t].outcome = "RetryError"]
                  /\ pc' = [pc EXCEPT ![t] = "sta_return"]
             ELSE /\ send' = [send EXCEPT ![t].posts[chat_id] = @ + 1]
                  /\ pc' = [pc EXCEPT ![t] = "sta_backoff"]
      /\ UNCHANGED <<now, envVars, webVars, sharedVars, cacheVars, scan, quote, histVars>>

\* The decorator's sleep between two attempts; the next attempt calls the
\* function again, so its loop starts over at the first chat id.
StaBackoff(t) ==
  /\ pc[t] = "sta_backoff"
  /\ send' = [send EXCEPT
                ![t].waits = Append(@, wait_exponential(send[t].attempt_number)),
                ![t].attempt_number = @ + 1,
                ![t].i = 1]
  /\ pc' = [pc EXCEPT ![t] = "sta_post"]
  /\ UNCHANGED <<now, envVars, webVars, sharedVars, cacheVars, scan, quote, histVars>>

\* line 238: send_telegram_alert has returned or raised RetryError, and
\* send_trade_alert ends the same way.
StaReturn(t) ==
  /\ pc[t] = "sta_return"
  /\ pc' = [pc EXCEPT ![t] = "idle"]
  /\ send' = [send EXCEPT ![t] = IdleSend]
  /\ sendLog' = [sendLog EXCEPT
                   !.finished = @ + 1,
                   !.raised = @ + (IF send[t].outcome = "RetryError"
                                     THEN 1 ELSE 0)]
  /\ UNCHANGED <<now, envVars, webVars, sharedVars, cacheVars, scan, quote, dedupLog,
                 scanLog, quoteStats, obtainedAt>>

(***************************************************************************)
(* send_daily_summary (lines 241-253), the cron job of line 335.           *)
(*                                                                         *)
(* The two loops iterate over daily_sentiment_scores itself.  A dict       *)
(* iterator remembers len(dict) as it is created and its position among    *)
(* the entries; each turn it raises RuntimeError ("dictionary changed size *)
(* during iteration") if len(dict) is no longer that length, and otherwise *)
(* goes on to the next entry in use.  The exception leaves the `with`      *)
(* block and the function; the scheduler logs it.                          *)
(***************************************************************************)
RECURSIVE Sum(_)
Sum(scores) == IF scores = <<>> THEN 0 ELSE Head(scores) + Sum(Tail(scores))

\* line 248 as line 249 renders it with :.2f, in hundredths (scores are in
\* tenths): sum(scores) / len(scores) if scores else 0, rounded to the
\* nearest hundredth, a tie to the even one.
avg_score(scores) ==
  IF scores = <<>> THEN 0
  ELSE LET n == 10 * Sum(scores)
           q == n \div Len(scores)
           r == n % Len(scores)
       IN  IF 2 * r > Len(scores) \/ (2 * r = Len(scores) /\ q % 2 = 1)
             THEN q + 1 ELSE q

\* The position of the first entry in use after position i, or 0.
NextEntry(d, i) ==
  LET later == {j \in (i + 1)..Len(d) : d[j].live}
  IN  IF later = {} THEN 0 ELSE CHOOSE j \in later : \A k \in later : j <= k

\* The summary text: its heading and one line per ticker, or the heading and
\* "No data available."
NoData == [no_data |-> TRUE, lines |-> <<>>]
Heading == [no_data |-> FALSE, lines |-> <<>>]

IdleSummary ==
  [i |-> 0, used |-> 0, message |-> Heading, calls |-> 0, failed |-> 0]

SummaryPcs == {"ds_lock", "ds_check", "ds_items", "ds_reset", "ds_raise",
               "ds_send"}

\* The scheduler's thread calls send_daily_summary().
send_daily_summary(t) ==
  /\ pc[t] = "idle"
  /\ summary.calls < MaxSummaries
  /\ pc' = [pc EXCEPT ![t] = "ds_lock"]
  /\ summary' = [summary EXCEPT !.calls = @ + 1]
  /\ UNCHANGED <<now, envVars, daily_sentiment_scores, sentiment_scores_lock,
                 cmd, sharedVars, cacheVars, scan, quote, send, histVars>>

\* line 242: with sentiment_scores_lock
DsAcquire(t) ==
  /\ pc[t] = "ds_lock"
  /\ sentiment_scores_lock = Free
  /\ sentiment_scores_lock' = t
  /\ pc' = [pc EXCEPT ![t] = "ds_check"]
  /\ UNCHANGED <<now, envVars, daily_sentiment_scores, cmd, summary,
                 sharedVars, cacheVars, scan, quote, send, histVars>>

\* lines 243-247: an empty dict gives the "No data" text and the block ends;
\* otherwise the heading, and the iterator of the first loop is created.
DsCheck(t) ==
  /\ pc[t] = "ds_check"
  /\ sentiment_scores_lock = t
  /\ IF EntryLen(daily_sentiment_scores) = 0
       THEN /\ summary' = [summary EXCEPT !.message = NoData]
            /\ sentiment_scores_lock' = Free
            /\ pc' = [pc EXCEPT ![t] = "ds_send"]
       ELSE /\ summary' = [summary EXCEPT
                             !.message = Heading, !.i = 0,
                             !.used = EntryLen(daily_sentiment_scores)]
            /\ UNCHANGED sentiment_scores_lock
            /\ pc' = [pc EXCEPT ![t] = "ds_items"]
  /\ UNCHANGED <<now, envVars, daily_sentiment_scores, cmd, sharedVars,
                 cacheVars, scan, quote, send, histVars>>

\* lines 247-249, one turn of the loop over daily_sentiment_scores.items();
\* after the last entry, the iterator of the loop of line 251 is created.
DsItems(t) ==
  LET d == daily_sentiment_scores
      j == NextEntry(d, summary.i)
  IN  /\ pc[t] = "ds_items"
      /\ sentiment_scores_lock = t
      /\ IF summary.used # EntryLen(d)
           THEN /\ summary' = [summary EXCEPT !.failed = @ + 1]
                /\ sentiment_scores_lock' = Free
                /\ pc' = [pc EXCEPT ![t] = "ds_raise"]
           ELSE IF j = 0
             THEN /\ summary' = [summary EXCEPT !.i = 0,
                                                !.used = EntryLen(d)]
                  /\ UNCHANGED sentiment_scores_lock
                  /\ pc' = [pc EXCEPT ![t] = "ds_reset"]
             ELSE /\ summary' =
                       [summary EXCEPT
                          !.i = j,
                          !.message.lines =
                             Append(@, [ticker |-> d[j].key,
                                        avg_score |-> avg_score(d[j].scores)])]
                  /\ UNCHANGED <<sentiment_scores_lock, pc>>
      /\ UNCHANGED <<now, envVars, daily_sentiment_scores, cmd, sharedVars,
                     cacheVars, scan, quote, send, histVars>>

\* lines 251-252, one turn of the loop that empties the lists; after the
\* last entry the block ends.
DsReset(t) ==
  LET d == daily_sentiment_scores
      j == NextEntry(d, summary.i)
  IN  /\ pc[t] = "ds_reset"
      /\ sentiment_scores_lock = t
      /\ IF summary.used # EntryLen(d)
           THEN /\ summary' = [summary EXCEPT !.failed = @ + 1]
                /\ sentiment_scores_lock' = Free
                /\ pc' = [pc EXCEPT ![t] = "ds_raise"]
                /\ UNCHANGED daily_sentiment_scores
           ELSE IF j = 0
             THEN /\ sentiment_scores_lock' = Free
                  /\ pc' = [pc EXCEPT ![t] = "ds_send"]
                  /\ UNCHANGED <<summary, daily_sentiment_scores>>
             ELSE /\ daily_sentiment_scores' = EntrySet(d, d[j].key, <<>>)
                  /\ summary' = [summary EXCEPT !.i = j]
                  /\ UNCHANGED <<sentiment_scores_lock, pc>>
      /\ UNCHANGED <<now, envVars, cmd, sharedVars, cacheVars, scan, quote,
                     send, histVars>>

\* The RuntimeError leaves send_daily_summary: no summary is sent.
DsRaise(t) ==
  /\ pc[t] = "ds_raise"
  /\ pc' = [pc EXCEPT ![t] = "idle"]
  /\ summary' = [IdleSummary EXCEPT !.calls = summary.calls,
                                    !.failed = summary.failed]
  /\ UNCHANGED <<now, envVars, daily_sentiment_scores, sentiment_scores_lock,
                 cmd, sharedVars, cacheVars, scan, quote, send, histVars>>

\* line 253: send_telegram_alert(message), with chat_ids = CHAT_IDS.
DsSend(t) ==
  /\ pc[t] = "ds_send"
  /\ pc' = [pc EXCEPT ![t] = "sta_post"]
  /\ send' = [send EXCEPT ![t] = [IdleSend EXCEPT
                                    !.message = summary.message,
                                    !.chat_ids = CHAT_IDS,
                                    !.attempt_number = 1,
                                    !.i = 1]]
  /\ summary' = [IdleSummary EXCEPT !.calls = summary.calls,
                                    !.failed = summary.failed]
  /\ UNCHANGED <<now, envVars, daily_sentiment_scores, sentiment_scores_lock,
                 cmd, sharedVars, cacheVars, scan, quote, histVars>>

(***************************************************************************)
(* fetch_and_analyze_news (lines 256-312).                                 *)
(*                                                                         *)
(* The function assigns the name sent_hashes_timestamps (line 296) and has *)
(* no global declaration for it, so the name is a local variable of the    *)
(* function, distinct from the module's dict of that name, and it is       *)
(* unbound until that assignment has completed.  The right-hand side of    *)
(* line 296 reads the local, so the statement raises UnboundLocalError.    *)
(* The exception leaves the `with sent_hashes_lock` block and the loops,   *)
(* and is caught by the handler of line 311, which ends the scan.          *)
(***************************************************************************)
news_sources == <<"rss", "finnhub">>
Unbound == "unbound"

\* hashlib.sha256(content.encode()).hexdigest(): one digest per content
sha256(content) == <<"sha256", content>>

\* The article contents one fetch can yield, in order (after the filter on
\* the publication time).
ArticleSeqs == UNION { [1..n -> Contents] : n \in 0..MaxArticles }

\* deque(maxlen=1000).append(x)
DequeAppend(q, x) ==
  IF Len(q) >= SentHashesMaxLen THEN Append(Tail(q), x) ELSE Append(q, x)

\* {k: v for k, v in d.items() if v > cutoff}
PruneOlder(d, cutoff) ==
  [k \in {h \in DOMAIN d : d[h] > cutoff} |-> d[k]]

NoDedup == [content |-> "", outcome |-> "", at |-> 0]
IdleScan ==
  [source |-> 0, articles |-> <<>>, a |-> 0, k |-> 0,
   local_timestamps |-> Unbound, presented |-> 0, failedArticle |-> 0,
   dedup |-> NoDedup, raised |-> ""]

ScanPcs == {"scan_source", "scan_tickers_lock", "scan_finnhub",
            "scan_article", "scan_dedup", "scan_except", "scan_return"}

\* main() runs one forced scan (line 337); the scheduler thread runs the
\* interval job (line 334) again and again.
MayScan(t) == IF t = "main" THEN scanLog[t] < 1 ELSE scanLog[t] < MaxScans

\* A thread calls fetch_and_analyze_news().
fetch_and_analyze_news(t) ==
  /\ pc[t] = "idle"
  /\ MayScan(t)
  /\ pc' = [pc EXCEPT ![t] = "scan_source"]
  /\ scan' = [scan EXCEPT ![t] = [IdleScan EXCEPT !.source = 1]]
  /\ scanLog' = [scanLog EXCEPT ![t] = @ + 1]
  /\ UNCHANGED <<now, envVars, webVars, sharedVars, cacheVars, quote, send, dedupLog,
                 quoteStats, sendLog, obtainedAt>>

\* line 258: after the last source the function returns.
ScanSourcesDone(t) ==
  /\ pc[t] = "scan_source"
  /\ scan[t].source > Len(news_sources)
  /\ pc' = [pc EXCEPT ![t] = "scan_return"]
  /\ UNCHANGED <<now, envVars, webVars, sharedVars, cacheVars, scan, quote, send,
                 histVars>>

\* lines 261-278: the RSS source.  A feed without entries is skipped; an
\* entry without a title raises.
ScanRss(t) ==
  /\ pc[t] = "scan_source"
  /\ scan[t].source <= Len(news_sources)
  /\ news_sources[scan[t].source] = "rss"
  /\ \E ok \in BOOLEAN : \E entries \in ArticleSeqs :
       IF ~ok
         THEN /\ entries = <<>>
              /\ pc' = [pc EXCEPT ![t] = "scan_except"]
              /\ scan' = [scan EXCEPT ![t].raised = "AttributeError"]
         ELSE IF entries = <<>>
           THEN /\ pc' = pc
                /\ scan' = [scan EXCEPT ![t].source = @ + 1]
           ELSE /\ pc' = [pc EXCEPT ![t] = "scan_article"]
                /\ scan' = [scan EXCEPT ![t].articles = entries, ![t].a = 1,
                                        ![t].presented = 0]
  /\ UNCHANGED <<now, envVars, webVars, sharedVars, cacheVars, quote, send, histVars>>

\* lines 279-280: the Finnhub source takes ticker_list_lock.
ScanAcquireTickers(t) ==
  /\ pc[t] = "scan_source"
  /\ scan[t].source <= Len(news_sources)
  /\ news_sources[scan[t].source] = "finnhub"
  /\ ticker_list_lock = Free
  /\ ticker_list_lock' = t
  /\ pc' = [pc EXCEPT ![t] = "scan_finnhub"]
  /\ scan' = [scan EXCEPT ![t].articles = <<>>, ![t].k = 1,
                          ![t].presented = 0]
  /\ UNCHANGED <<now, envVars, webVars, ticker_list, sent_hashes,
                 sent_hashes_timestamps, sent_hashes_lock, cacheVars, quote,
                 send, histVars>>

\* lines 281-289: one request per ticker, with ticker_list_lock held.  A
\* request that raises leaves the block; after the last ticker the block
\* ends.
ScanFinnhubRequest(t) ==
  /\ pc[t] = "scan_finnhub"
  /\ ticker_list_lock = t
  /\ IF scan[t].k > Len(ticker_list)
       THEN /\ ticker_list_lock' = Free
            /\ pc' = [pc EXCEPT ![t] = "scan_article"]
            /\ scan' = [scan EXCEPT ![t].a = 1]
       ELSE \E ok \in BOOLEAN : \E news_items \in ArticleSeqs :
              IF ~ok
                THEN /\ news_items = <<>>
                     /\ ticker_list_lock' = Free
                     /\ pc' = [pc EXCEPT ![t] = "scan_except"]
                     /\ scan' = [scan EXCEPT ![t].raised = "RequestException"]
                ELSE /\ Len(scan[t].articles) + Len(news_items) <= MaxArticles
                     /\ ticker_list_lock' = ticker_list_lock
                     /\ pc' = pc
                     /\ scan' = [scan EXCEPT
                                   ![t].articles = @ \o news_items,
                                   ![t].k = @ + 1]
  /\ UNCHANGED <<now, envVars, webVars, ticker_list, sent_hashes,
                 sent_hashes_timestamps, sent_hashes_lock, cacheVars, quote,
                 send, histVars>>

\* line 291: after the last article of a source, the next source.
ScanArticlesDone(t) ==
  /\ pc[t] = "scan_article"
  /\ scan[t].a > Len(scan[t].articles)
  /\ pc' = [pc EXCEPT ![t] = "scan_source"]
  /\ scan' = [scan EXCEPT ![t].source = @ + 1]
  /\ UNCHANGED <<now, envVars, webVars, sharedVars, cacheVars, quote, send, histVars>>

\* lines 291-294: the next article is hashed and sent_hashes_lock is taken.
ScanAcquireDedup(t) ==
  /\ pc[t] = "scan_article"
  /\ scan[t].a <= Len(scan[t].articles)
  /\ sent_hashes_lock = Free
  /\ sent_hashes_lock' = t
  /\ pc' = [pc EXCEPT ![t] = "scan_dedup"]
  /\ UNCHANGED <<now, envVars, webVars, ticker_list, ticker_list_lock, sent_hashes,
                 sent_hashes_timestamps, cacheVars, scan, quote, send,
                 histVars>>

\* What the block of lines 295-300 does with the function's local
\* sent_hashes_timestamps, the deque and a digest.
DedupBlock(local_timestamps, hashes, news_hash, t) ==
  IF local_timestamps = Unbound
    THEN [outcome |-> "UnboundLocalError", hashes |-> hashes,
          local_timestamps |-> local_timestamps]
    ELSE LET cutoff == t - DedupWindow
             pruned == PruneOlder(local_timestamps, cutoff)
         IN  IF news_hash \in Range(hashes)
               THEN [outcome |-> "duplicate", hashes |-> hashes,
                     local_timestamps |-> pruned]
               ELSE [outcome |-> "new", hashes |-> DequeAppend(hashes, news_hash),
                     local_timestamps |-> DictSet(pruned, news_hash, t)]

\* lines 295-300 with sent_hashes_lock held; leaving the block, by the
\* exception, by continue or at its end, releases the lock.  Lines 302-310
\* (scoring, matching, send_trade_alert) follow a block that ends normally.
ScanDedup(t) ==
  LET content == scan[t].articles[scan[t].a]
      news_hash == sha256(content)
      r == DedupBlock(scan[t].local_timestamps, sent_hashes, news_hash, now)
      entry == [thread |-> t, content |-> content, at |-> now,
                outcome |-> r.outcome, hashes |-> Range(r.hashes)]
  IN  /\ pc[t] = "scan_dedup"
      /\ sent_hashes_lock = t
      /\ sent_hashes_lock' = Free
      /\ sent_hashes' = r.hashes
      /\ dedupLog' = Append(dedupLog, entry)
      /\ scan' = [scan EXCEPT
                    ![t].local_timestamps = r.local_timestamps,
                    ![t].presented = @ + 1,
                    ![t].dedup = [content |-> content, outcome |-> r.outcome,
                                  at |-> now],
                    ![t].failedArticle =
                       IF r.outcome = "UnboundLocalError" THEN scan[t].a ELSE @,
                    ![t].raised =
                       IF r.outcome = "UnboundLocalError" THEN r.outcome ELSE @,
                    ![t].a = IF r.outcome = "duplicate" THEN @ + 1 ELSE @]
      /\ pc' = [pc EXCEPT ![t] =
                  CASE r.outcome = "UnboundLocalError" -> "scan_except"
                    [] r.outcome = "duplicate" -> "scan_article"
                    [] OTHER -> "scan_score"]
      /\ UNCHANGED <<now, envVars, webVars, ticker_list, ticker_list_lock,
                     sent_hashes_timestamps, cacheVars, quote, send, scanLog,
                     quoteStats, sendLog, obtainedAt>>

\* A handler that starts the scan over instead of returning.
ScanExceptAgain(t) ==
  /\ pc[t] = "scan_except"
  /\ pc' = [pc EXCEPT ![t] = "scan_source"]
  /\ scan' = [scan EXCEPT ![t].source = 1, ![t].raised = ""]
  /\ UNCHANGED <<now, envVars, webVars, sharedVars, cacheVars, quote, send,
                 histVars>>

\* lines 311-312: the handler logs the exception; the function returns.
ScanExcept(t) ==
  /\ pc[t] = "scan_except"
  /\ pc' = [pc EXCEPT ![t] = "scan_return"]
  /\ UNCHANGED <<now, envVars, webVars, sharedVars, cacheVars, scan, quote, send,
                 histVars>>

\* fetch_and_analyze_news has returned to its caller.
ScanReturn(t) ==
  /\ pc[t] = "scan_return"
  /\ pc' = [pc EXCEPT ![t] = "idle"]
  /\ scan' = [scan EXCEPT ![t] = IdleScan]
  /\ UNCHANGED <<now, envVars, webVars, sharedVars, cacheVars, quote, send, histVars>>

\* The clock, while scans run.
TickScan ==
  /\ \E d \in ScanTickSteps : now + d <= MaxScanNow /\ now' = now + d
  /\ UNCHANGED <<envVars, webVars, sharedVars, cacheVars, pc, scan, quote, send,
                 histVars>>


\* The module's state that does not depend on the environment (lines 64-78).
InitModule ==
  /\ ticker_list_lock = Free
  /\ sent_hashes = <<>>
  /\ sent_hashes_timestamps = EmptyDict
  /\ sent_hashes_lock = Free
  /\ option_cache = EmptyDict
  /\ option_cache_timestamps = EmptyDict
  /\ option_cache_lock = Free
  /\ sentiment_scores_lock = Free
  /\ cmd = [t \in Callers |-> IdleCmd]
  /\ scan = [t \in Threads |-> IdleScan]
  /\ quote = [t \in Threads |-> IdleQuote]
  /\ send = [t \in Threads \cup Jobs |-> IdleSend]
  /\ summary = IdleSummary
  /\ dedupLog = <<>>
  /\ scanLog = [t \in Threads |-> 0]
  /\ quoteStats = [returned |-> 0, lookups |-> 0, served |-> 0]
  /\ sendLog = [finished |-> 0, raised |-> 0, skipped |-> 0]
  /\ obtainedAt = EmptyDict

\* The state of a process that has imported the module with the default
\* tickers and has its threads running.
InitShared ==
  /\ InitModule
  /\ ticker_list = LIQUID_TICKERS
  /\ daily_sentiment_scores = EmptyScores(LIQUID_TICKERS)
  /\ pc = [t \in AllThreads |-> "idle"]

InitQuote ==
  /\ InitShared
  /\ now = 0
  /\ down = {}
  /\ invalid = {}
  /\ CHAT_IDS = <<"A">>
  /\ environ = EnvironOf(CHAT_IDS, ticker_list)

NextQuote ==
  \/ \E t \in Threads : \E ticker \in QuoteTickers : get_option_data(t, ticker)
  \/ \E t \in Threads : GodAcquireCheck(t)
  \/ \E t \in Threads : GodCheck(t)
  \/ \E t \in Threads : GodQuoteRequest(t)
  \/ \E t \in Threads : GodChainRequest(t)
  \/ \E t \in Threads : GodAcquireStore(t)
  \/ \E t \in Threads : GodStoreResult(t)
  \/ \E t \in Threads : GodStoreTimestamp(t)
  \/ \E t \in Threads : GodReturn(t)
  \/ TickQuote

SpecQuote == InitQuote /\ [][NextQuote]_vars

(***************************************************************************)
(* Threads that call send_trade_alert, for every recipient list and every  *)
(* set of recipients whose POST fails.                                     *)
(***************************************************************************)
InitSend ==
  /\ InitShared
  /\ now = 0
  /\ down \in SUBSET Recipients
  /\ invalid \in SUBSET down
  /\ CHAT_IDS \in RecipientLists
  /\ environ = EnvironOf(CHAT_IDS, ticker_list)

NextSend ==
  \/ \E t \in Threads : \E ticker \in AlertTickers :
       \E headline \in AlertHeadlines :
         send_trade_alert(t, ticker, headline, 5, "Finnhub")
  \/ \E t \in Threads : GodAcquireCheck(t)
  \/ \E t \in Threads : GodCheck(t)
  \/ \E t \in Threads : GodQuoteRequest(t)
  \/ \E t \in Threads : GodChainRequest(t)
  \/ \E t \in Threads : GodAcquireStore(t)
  \/ \E t \in Threads : GodStoreResult(t)
  \/ \E t \in Threads : GodStoreTimestamp(t)
  \/ \E t \in Threads : TradeAlertSkip(t)
  \/ \E t \in Threads : TradeAlertSend(t)
  \/ \E t \in Threads : StaPost(t)
  \/ \E t \in Threads : StaBackoff(t)
  \/ \E t \in Threads : StaReturn(t)

SpecSend == InitSend /\ [][NextSend]_vars

(***************************************************************************)
(* The program's scans: the forced scan of main() and the interval job of  *)
(* the scheduler, which can overlap.                                       *)
(***************************************************************************)
Init ==
  /\ InitShared
  /\ now = 0
  /\ down = {}
  /\ invalid = {}
  /\ CHAT_IDS = <<"A">>
  /\ environ = EnvironOf(CHAT_IDS, ticker_list)

Next ==
  \/ \E t \in Threads : fetch_and_analyze_news(t)
  \/ \E t \in Threads : ScanSourcesDone(t)
  \/ \E t \in Threads : ScanRss(t)
  \/ \E t \in Threads : ScanAcquireTickers(t)
  \/ \E t \in Threads : ScanFinnhubRequest(t)
  \/ \E t \in Threads : ScanArticlesDone(t)
  \/ \E t \in Threads : ScanAcquireDedup(t)
  \/ \E t \in Threads : ScanDedup(t)
  \/ \E t \in Threads : ScanExcept(t)
  \/ \E t \in Threads : ScanReturn(t)
  \/ TickScan

Spec == Init /\ [][Next]_vars

(***************************************************************************)
(* The process from its start: the module's top level, main(), and the     *)
(* scans, for every environment.                                           *)
(***************************************************************************)
InitBoot ==
  /\ InitModule
  /\ now = 0
  /\ down = {}
  /\ invalid = {}
  /\ environ \in BootEnvirons
  /\ CHAT_IDS = <<>>
  /\ ticker_list = <<>>
  /\ daily_sentiment_scores = <<>>
  /\ pc = [t \in AllThreads |-> "unstarted"]

NextBoot ==
  \/ ModuleImport
  \/ main
  \/ \E t \in Threads : fetch_and_analyze_news(t)
  \/ \E t \in Threads : ScanSourcesDone(t)
  \/ \E t \in Threads : ScanRss(t)
  \/ \E t \in Threads : ScanAcquireTickers(t)
  \/ \E t \in Threads : ScanFinnhubRequest(t)
  \/ \E t \in Threads : ScanArticlesDone(t)
  \/ \E t \in Threads : ScanAcquireDedup(t)
  \/ \E t \in Threads : ScanDedup(t)
  \/ \E t \in Threads : ScanExcept(t)
  \/ \E t \in Threads : ScanReturn(t)

SpecBoot == InitBoot /\ [][NextBoot]_vars

(***************************************************************************)
(* The watch-list: the threads that call the watch-list functions, for the *)
(* ticker lists the environment can give.                                  *)
(***************************************************************************)
LiquidValues ==
  {EnvUnset, EnvStr(<<"AAPL">>), EnvStr(<<"AAPL", Comma, "AAPL">>)}

InitTickers ==
  /\ InitModule
  /\ now = 0
  /\ down = {}
  /\ invalid = {}
  /\ CHAT_IDS = <<"A">>
  /\ \E e \in LiquidValues :
       /\ environ = [EnvironOf(CHAT_IDS, <<>>) EXCEPT !.LIQUID_TICKERS = e]
       /\ ticker_list = GetenvSplit(e, CommaJoin(LIQUID_TICKERS))
  /\ daily_sentiment_scores = EmptyScores(ticker_list)
  /\ pc = [t \in AllThreads |-> "idle"]

NextTickers ==
  \/ \E t \in Workers : \E symbol \in Symbols : add_ticker(t, symbol)
  \/ \E t \in Workers : AtAcquire(t)
  \/ \E t \in Workers : AtCheck(t)
  \/ \E t \in Workers : AtVerify(t)
  \/ \E t \in Workers : AtAppend(t)
  \/ \E t \in Workers : AtScores(t)
  \/ \E t \in Workers : \E symbol \in Symbols : remove_ticker(t, symbol)
  \/ \E t \in Workers : RtAcquire(t)
  \/ \E t \in Workers : RtCheck(t)
  \/ \E t \in Workers : RtRemove(t)
  \/ \E t \in Workers : RtPop(t)
  \/ \E t \in Workers : list_tickers(t)
  \/ \E t \in Workers : LtAcquire(t)
  \/ \E t \in Workers : LtList(t)
  \/ \E t \in Pollers : \E text \in MatchTexts : match_ticker(t, text)
  \/ \E t \in Pollers : MtAcquire(t)
  \/ \E t \in Pollers : MtIter(t)
  \/ \E t \in Callers : TkReturn(t)

SpecTickers == InitTickers /\ [][NextTickers]_vars

(***************************************************************************)
(* The watch-list while the scheduler's scans run: one worker thread calls *)
(* the watch-list functions beside the scan and its match_ticker calls.    *)
(***************************************************************************)
Handlers == {"web1"}

NextWatch ==
  \/ \E t \in Handlers : \E symbol \in Symbols : add_ticker(t, symbol)
  \/ \E t \in Handlers : AtAcquire(t)
  \/ \E t \in Handlers : AtCheck(t)
  \/ \E t \in Handlers : AtVerify(t)
  \/ \E t \in Handlers : AtAppend(t)
  \/ \E t \in Handlers : AtScores(t)
  \/ \E t \in Handlers : \E symbol \in Symbols : remove_ticker(t, symbol)
  \/ \E t \in Handlers : RtAcquire(t)
  \/ \E t \in Handlers : RtCheck(t)
  \/ \E t \in Handlers : RtRemove(t)
  \/ \E t \in Handlers : RtPop(t)
  \/ \E t \in Handlers : list_tickers(t)
  \/ \E t \in Handlers : LtAcquire(t)
  \/ \E t \in Handlers : LtList(t)
  \/ \E t \in Pollers : \E text \in MatchTexts : match_ticker(t, text)
  \/ \E t \in Pollers : MtAcquire(t)
  \/ \E t \in Pollers : MtIter(t)
  \/ \E t \in Handlers \cup Pollers : TkReturn(t)
  \/ \E t \in Pollers : fetch_and_analyze_news(t)
  \/ \E t \in Pollers : ScanSourcesDone(t)
  \/ \E t \in Pollers : ScanRss(t)
  \/ \E t \in Pollers : ScanAcquireTickers(t)
  \/ \E t \in Pollers : ScanFinnhubRequest(t)
  \/ \E t \in Pollers : ScanArticlesDone(t)
  \/ \E t \in Pollers : ScanAcquireDedup(t)
  \/ \E t \in Pollers : ScanDedup(t)
  \/ \E t \in Pollers : ScanExcept(t)
  \/ \E t \in Pollers : ScanReturn(t)

SpecWatch == InitTickers /\ [][NextWatch]_vars

(***************************************************************************)
(* The jobs that take the four locks, side by side: the scheduler's scan   *)
(* and its match_ticker calls, the cron job's daily summary, a worker's    *)
(* watch-list commands, and get_option_data calls.                         *)
(***************************************************************************)
Quoters == {"main"}

\* The calls begun so far.
JobsStarted ==
  scanLog["sched"] + CmdCallsStarted + QuoteCallsStarted + summary.calls

InitJobs ==
  /\ InitShared
  /\ now = 0
  /\ CHAT_IDS = <<"A">>
  /\ down \in SUBSET Range(CHAT_IDS)
  /\ invalid = {}
  /\ environ = EnvironOf(CHAT_IDS, ticker_list)

\* A thread begins a call.
BeginJob ==
  \/ \E t \in Handlers : \E symbol \in Symbols :
       JobsStarted < MaxJobs /\ add_ticker(t, symbol)
  \/ \E t \in Handlers : \E symbol \in Symbols :
       JobsStarted < MaxJobs /\ remove_ticker(t, symbol)
  \/ \E t \in Handlers : JobsStarted < MaxJobs /\ list_tickers(t)
  \/ \E t \in Pollers : \E text \in MatchTexts :
       JobsStarted < MaxJobs /\ match_ticker(t, text)
  \/ \E t \in Pollers : JobsStarted < MaxJobs /\ fetch_and_analyze_news(t)
  \/ \E t \in Quoters : \E ticker \in QuoteTickers :
       JobsStarted < MaxJobs /\ get_option_data(t, ticker)
  \/ \E t \in Jobs : JobsStarted < MaxJobs /\ send_daily_summary(t)

\* A thread takes a step of the call it is in.
JobStep ==
  \/ \E t \in Handlers : AtAcquire(t)
  \/ \E t \in Handlers : AtCheck(t)
  \/ \E t \in Handlers : AtVerify(t)
  \/ \E t \in Handlers : AtAppend(t)
  \/ \E t \in Handlers : AtScores(t)
  \/ \E t \in Handlers : RtAcquire(t)
  \/ \E t \in Handlers : RtCheck(t)
  \/ \E t \in Handlers : RtRemove(t)
  \/ \E t \in Handlers : RtPop(t)
  \/ \E t \in Handlers : LtAcquire(t)
  \/ \E t \in Handlers : LtList(t)
  \/ \E t \in Pollers : MtAcquire(t)
  \/ \E t \in Pollers : MtIter(t)
  \/ \E t \in Handlers \cup Pollers : TkReturn(t)
  \/ \E t \in Pollers : ScanSourcesDone(t)
  \/ \E t \in Pollers : ScanRss(t)
  \/ \E t \in Pollers : ScanAcquireTickers(t)
  \/ \E t \in Pollers : ScanFinnhubRequest(t)
  \/ \E t \in Pollers : ScanArticlesDone(t)
  \/ \E t \in Pollers : ScanAcquireDedup(t)
  \/ \E t \in Pollers : ScanDedup(t)
  \/ \E t \in Pollers : ScanExcept(t)
  \/ \E t \in Pollers : ScanReturn(t)
  \/ \E t \in Quoters : GodAcquireCheck(t)
  \/ \E t \in Quoters : GodCheck(t)
  \/ \E t \in Quoters : GodQuoteRequest(t)
  \/ \E t \in Quoters : GodChainRequest(t)
  \/ \E t \in Quoters : GodAcquireStore(t)
  \/ \E t \in Quoters : GodStoreResult(t)
  \/ \E t \in Quoters : GodStoreTimestamp(t)
  \/ \E t \in Quoters : GodReturn(t)
  \/ \E t \in Jobs : DsAcquire(t)
  \/ \E t \in Jobs : DsCheck(t)
  \/ \E t \in Jobs : DsItems(t)
  \/ \E t \in Jobs : DsReset(t)
  \/ \E t \in Jobs : DsRaise(t)
  \/ \E t \in Jobs : DsSend(t)
  \/ \E t \in Jobs : StaPost(t)
  \/ \E t \in Jobs : StaBackoff(t)
  \/ \E t \in Jobs : StaReturn(t)

NextJobs == BeginJob \/ JobStep

SpecJobs == InitJobs /\ [][NextJobs]_vars

(***************************************************************************)
(* The scans under fair scheduling: a thread that can take a step of the   *)
(* scan it is in takes it in the end, since every external call returns or *)
(* fails and a lock that is held is released by its holder's next steps.   *)
(* Whether a thread begins a scan is left open.                            *)
(***************************************************************************)
\* A step of the scan a thread is in.
ScanStep(t) ==
  \/ ScanSourcesDone(t)
  \/ ScanRss(t)
  \/ ScanAcquireTickers(t)
  \/ ScanFinnhubRequest(t)
  \/ ScanArticlesDone(t)
  \/ ScanAcquireDedup(t)
  \/ ScanDedup(t)
  \/ ScanExcept(t)
  \/ ScanReturn(t)

NextLive ==
  \/ \E t \in Threads : fetch_and_analyze_news(t)
  \/ \E t \in Threads : ScanStep(t)

SpecLive ==
  /\ Init
  /\ [][NextLive]_vars
  /\ \A t \in Threads : WF_vars(ScanStep(t))

(***************************************************************************)
(* Properties of get_option_data, under SpecQuote.                         *)
(***************************************************************************)
\* A thread that has made the freshness test of its current call.
PastCheck(t) ==
  pc[t] \in {"god_quote", "god_chain", "god_lock2", "god_store", "god_stamp",
             "god_return"} /\ ~quote[t].raised
\* A thread that has also finished the quote request of its current call.
PastQuote(t) == PastCheck(t) /\ (pc[t] # "god_quote")
\* The age, at the freshness test, of the entry the test looked at.
SeenAge(t) == quote[t].checkedAt - quote[t].seen.stamp

\* C6: a lookup that ends without a usable (strike, price) pair stores
\* nothing, so no call is ever answered (None, None) from the cache: a call
\* that returns without a pair has asked the provider.
C6_NoNegativeCaching ==
  \A t \in Threads :
    (PastCheck(t) /\ quote[t].hit) => ~quote[t].result.none

\* C7: a call that finds a successfully looked up tuple younger than the TTL
\* returns that identical tuple and makes no provider lookup; a call that
\* finds the entry at or past the TTL, or no entry, makes one provider lookup.
C7_CachedWithinTTL ==
  \A t \in Threads :
    LET q == quote[t]
    IN  /\ (PastCheck(t) /\ q.seen.present /\ ~q.seen.value.none
              /\ SeenAge(t) < QuoteTTL)
             => (q.hit /\ q.result = q.seen.value /\ q.calls = 0)
        /\ (PastQuote(t) /\ q.seen.present /\ SeenAge(t) >= QuoteTTL)
             => (~q.hit /\ q.calls = 1)
        /\ (PastQuote(t) /\ ~q.seen.present) => (~q.hit /\ q.calls = 1)

\* C7 witness: one call has been answered from the cache, and a later call
\* that found the same ticker's tuple expired has made the second lookup.
C7_Witness ==
  /\ quoteStats.served >= 1
  /\ quoteStats.lookups = 1
  /\ \E t \in Threads :
       /\ PastQuote(t)
       /\ quote[t].seen.present /\ ~quote[t].seen.value.none
       /\ SeenAge(t) >= QuoteTTL
       /\ quote[t].calls = 1

\* C8: a value served from the cache was obtained from the provider less
\* than the TTL before it is served.
C8_ServedYoungerThanTTL ==
  \A t \in Threads :
    (PastCheck(t) /\ quote[t].hit)
      => quote[t].checkedAt - quote[t].seen.obtained < QuoteTTL

(***************************************************************************)
(* Properties of the dispatch of one alert, under SpecSend.                *)
(***************************************************************************)
\* A thread whose send_telegram_alert call has ended.
SendEnded(t) == pc[t] = "sta_return"
\* The position of a recipient in a recipient list.
Position(l, r) == CHOOSE i \in 1..Len(l) : l[i] = r
NonDecreasing(w) == \A i \in 1..(Len(w) - 1) : w[i] <= w[i + 1]

\* C1: no recipient is sent the same alert (same article, same ticker) more
\* than once: while the alert of one article for one ticker is dispatched,
\* every recipient has been delivered it at most once, also when the send to
\* another recipient fails and is retried.
C1_NoSecondAlert ==
  \A t \in Threads : \A r \in Recipients : send[t].delivered[r] <= 1

\* C3: one call of send_telegram_alert delivers to every recipient whose
\* send succeeds: when the call has ended, a recipient B whose POST does not
\* fail has received the message, whatever recipient A fails and wherever A
\* and B stand in the list.
C3_FailureDoesNotSuppressOthers ==
  \A t \in Threads :
    SendEnded(t) =>
      \A a, b \in Range(send[t].chat_ids) :
        (a \in down /\ b \notin down) => send[t].delivered[b] >= 1

\* C4: when the send to a recipient fails continuously, the call makes
\* exactly maxRetries attempts to it, with non-decreasing waits bounded by
\* the maximum delay, records it as failed and goes on to the next
\* recipients: the call returns to its caller instead of raising.
C4_BoundedRetryThenContinue ==
  \A t \in Threads :
    SendEnded(t) =>
      \A a \in Range(send[t].chat_ids) \cap down :
        /\ send[t].posts[a] = STOP_AFTER_ATTEMPT
        /\ NonDecreasing(send[t].waits)
        /\ \A i \in 1..Len(send[t].waits) : send[t].waits[i] <= WAIT_MAX
        /\ send[t].outcome = "returned"
        /\ \A r \in Range(send[t].chat_ids) :
             Position(send[t].chat_ids, r) > Position(send[t].chat_ids, a)
               => send[t].posts[r] >= 1

(***************************************************************************)
(* Properties of the scans, under Spec.                                    *)
(***************************************************************************)
\* A thread that has run the dedup block in its current scan.
Deduped(t) == pc[t] \in ScanPcs /\ scan[t].dedup.outcome # ""

\* C2: of two concurrently running scans that each process an article with
\* identical content, at most one finds the hash absent and goes on, and the
\* other one skips the article as a duplicate.
C2_AtomicCheckAndInsert ==
  \A t, u \in Threads :
    (t # u /\ Deduped(t) /\ Deduped(u)
       /\ scan[t].dedup.content = scan[u].dedup.content)
      => /\ ~(scan[t].dedup.outcome = "new" /\ scan[u].dedup.outcome = "new")
         /\ "duplicate" \in {scan[t].dedup.outcome, scan[u].dedup.outcome}

\* C5: a failure while one article is handled does not end the scan: when
\* the scan has returned, every later article of the source has been taken
\* through the dedup step and every later source has been scanned.
C5_ItemFailureIsolated ==
  \A t \in Threads :
    (pc[t] = "scan_return" /\ scan[t].failedArticle > 0)
      => /\ scan[t].presented = Len(scan[t].articles)
         /\ scan[t].source > Len(news_sources)

\* C9: a scan that meets a content again when the dedup window has elapsed
\* since every earlier time the content was seen treats it as new.
C9_NewAgainAfterWindow ==
  \A j \in 1..Len(dedupLog) :
    ( /\ \E i \in 1..(j - 1) : dedupLog[i].content = dedupLog[j].content
      /\ \A i \in 1..(j - 1) :
           dedupLog[i].content = dedupLog[j].content
             => dedupLog[j].at - dedupLog[i].at >= DedupWindow )
      => dedupLog[j].outcome = "new"

\* The time a digest was first seen by a dedup step before entry j of the
\* history, within the dedup window that is running at entry j.
SeenAt(h, j) ==
  {dedupLog[i].at : i \in {n \in 1..j : sha256(dedupLog[n].content) = h}}

C11_FirstNewThenSeen ==
  \A j \in 1..Len(dedupLog) :
    /\ (\A i \in 1..(j - 1) : dedupLog[i].content # dedupLog[j].content)
         => dedupLog[j].outcome = "new"
    /\ ( /\ j > 1
         /\ dedupLog[j - 1].content = dedupLog[j].content
         /\ dedupLog[j].at - dedupLog[j - 1].at < DedupWindow )
         => dedupLog[j].outcome = "duplicate"

C13_SingleScan ==
  \A t, u \in Threads :
    (t # u) => ~(pc[t] \in ScanPcs /\ pc[u] \in ScanPcs)

(***************************************************************************)
(* More properties of the dispatch, under SpecSend.                        *)
(***************************************************************************)
\* C14: a send that fails with a permanent error (a recipient Telegram
\* rejects for good) is not retried: the call posts to that recipient once.
C14_PermanentNotRetried ==
  \A t \in Threads : \A r \in invalid : send[t].posts[r] <= 1

(***************************************************************************)
(* Properties of the start of the process, under SpecBoot.                 *)
(***************************************************************************)
\* The environment lacks a required setting: the bot token, the API key, or
\* the recipients (TELEGRAM_CHAT_IDS set to the empty string).
ConfigMissing ==
  \/ Missing(environ.TELEGRAM_BOT_TOKEN)
  \/ Missing(environ.FINNHUB_API_KEY)
  \/ (environ.TELEGRAM_CHAT_IDS.set /\ environ.TELEGRAM_CHAT_IDS.value = <<>>)

\* C15: when a required setting is missing the process halts with a
\* configuration error before any scan runs and before any message is sent.
C15_HaltsOnMissingConfig ==
  ConfigMissing =>
    /\ pc["main"] \in {"unstarted", "halted"}
    /\ \A t \in Threads :
         scanLog[t] = 0 /\ pc[t] \notin (ScanPcs \cup SendPcs)

(***************************************************************************)
(* Properties of the alerts of a scan, under Spec.                         *)
(***************************************************************************)
\* Entry j of the history is an article that passes all gates for one
\* ticker: its content was not handled before, its score reaches the
\* threshold and it names exactly one ticker of the watch-list.
PassesAllGates(j) ==
  /\ \A i \in 1..(j - 1) : dedupLog[i].content # dedupLog[j].content
  /\ PassesThreshold(analyze_sentiment(Text(dedupLog[j].content)))
  /\ Len(MatchFrom(ticker_list, 1, Text(dedupLog[j].content))) = 1

\* C16: when every send succeeds, a send_telegram_alert call posts the
\* message exactly once to each configured recipient, and every article that
\* passes all gates for one ticker has produced exactly one such call when
\* the scans have returned.
C16_OneAlertPerArticle ==
  /\ \A t \in Threads :
       (SendEnded(t) /\ Range(send[t].chat_ids) \cap down = {})
         => \A r \in Range(send[t].chat_ids) : send[t].posts[r] = 1
  /\ (\A t \in Threads : pc[t] \in {"idle", "scan_return"})
       => sendLog.finished
            = Cardinality({j \in 1..Len(dedupLog) : PassesAllGates(j)})

(***************************************************************************)
(* Properties of the watch-list, under SpecTickers and SpecWatch.          *)
(***************************************************************************)
NoDuplicates(l) == \A i, j \in 1..Len(l) : (i # j) => l[i] # l[j]

\* C17: for every watch-list the program can hold (the list of
\* LIQUID_TICKERS, then any add_ticker and remove_ticker calls) and every
\* text, match_ticker returns each symbol at most once.
C17_MatchDuplicateFree ==
  \A t \in Callers :
    (pc[t] = "tk_return" /\ cmd[t].op = "match") => NoDuplicates(cmd[t].result)

\* The positions where a thread reads or writes ticker_list, and those where
\* it is in the middle of an iteration over it.
TickerAccessPcs ==
  {"at_check", "at_verify", "at_append", "at_scores", "rt_check", "rt_remove",
   "rt_pop", "lt_list", "mt_iter", "scan_finnhub"}
TickerIterPcs == {"mt_iter", "scan_finnhub"}

\* C18: every read and write of the watch-list happens with ticker_list_lock
\* held by the thread that makes it, and the list does not change while a
\* thread is in the middle of an iteration over it.
C18_WatchListUnderLock ==
  /\ [](\A t \in AllThreads :
          pc[t] \in TickerAccessPcs => ticker_list_lock = t)
  /\ [][\A t \in AllThreads :
          (pc[t] \in TickerIterPcs /\ pc'[t] \in TickerIterPcs)
            => ticker_list' = ticker_list]_vars

\* C18 witness: the scan is in the middle of its iteration over the
\* watch-list, which a worker has changed before, while the worker waits at
\* the lock to change the list again.
C18_Witness ==
  /\ pc["sched"] = "scan_finnhub"
  /\ scan["sched"].k = 2
  /\ pc["web1"] \in {"at_lock", "rt_lock"}
  /\ cmd["web1"].calls = 2
  /\ ticker_list # GetenvSplit(environ.LIQUID_TICKERS,
                               CommaJoin(LIQUID_TICKERS))

\* A thread that is making an external call: a news fetch, a symbol
\* verification, a quote lookup or a send.
AtExternalCall(t) ==
  \/ pc[t] \in {"at_verify", "god_quote", "god_chain", "sta_post"}
  \/ (pc[t] = "scan_finnhub" /\ scan[t].k <= Len(ticker_list))
  \/ (pc[t] = "scan_source" /\ scan[t].source <= Len(news_sources)
        /\ news_sources[scan[t].source] = "rss")
HoldsNoLock(t) ==
  t \notin {ticker_list_lock, sent_hashes_lock, option_cache_lock,
            sentiment_scores_lock}

\* C19: no external call is made while a shared lock is held, so a stalled
\* external call blocks only the thread that issued it.
C19_NoExternalCallUnderLock ==
  \A t \in AllThreads : AtExternalCall(t) => HoldsNoLock(t)

(***************************************************************************)
(* Termination, under SpecLive.                                            *)
(***************************************************************************)
\* C20: every scan terminates, provided each external call returns or
\* fails: a scan in progress, also one in which a source or a step fails,
\* returns to its caller in the end, holding no lock.
C20_ScanTerminates ==
  \A t \in Threads :
    (pc[t] \in ScanPcs) ~> (pc[t] = "idle" /\ HoldsNoLock(t))

\* C20 witness: a scan whose Finnhub source has failed has returned, while
\* the other thread's scan, its second, waits for ticker_list_lock or holds
\* it.
C20_Witness ==
  \E t, u \in Threads :
    /\ t # u
    /\ pc[t] = "scan_return" /\ scan[t].raised = "RequestException"
    /\ pc[u] \in {"scan_source", "scan_finnhub"}
    /\ scan[u].source = 2
    /\ scanLog[u] = 2

(***************************************************************************)
(* The fingerprint of a handled article, under Spec.                       *)
(***************************************************************************)
\* C21: the fingerprint of an article is recorded as seen by the dedup step,
\* before the article is scored, matched, quoted or delivered, and it stays
\* recorded whatever the later stages do; an article that a scan has handled
\* once is a duplicate for every later scan while the deque remembers it, so
\* it is delivered at most once.
C21_RecordedBeforeDelivery ==
  \A j \in 1..Len(dedupLog) :
    /\ sha256(dedupLog[j].content) \in Range(sent_hashes)
    /\ \A i \in 1..(j - 1) :
         dedupLog[i].content = dedupLog[j].content
           => dedupLog[j].outcome = "duplicate"

(***************************************************************************)
(* The two dictionaries of the quote cache, under SpecQuote.               *)
(***************************************************************************)
\* C24: whenever option_cache_lock is free, option_cache and
\* option_cache_timestamps have the same keys, and the freshness test of a
\* get_option_data call that holds the lock never finds a cached ticker
\* without a timestamp, whatever other calls run beside it.
C24_CacheKeysMatch ==
  /\ option_cache_lock = Free
       => DOMAIN option_cache = DOMAIN option_cache_timestamps
  /\ \A t \in Threads :
       (pc[t] = "god_check" /\ quote[t].ticker \in DOMAIN option_cache)
         => quote[t].ticker \in DOMAIN option_cache_timestamps
  /\ \A t \in Threads : ~quote[t].raised

\* C24 witness: the lock is free and the cache holds a stored tuple, after a
\* call has returned, while one call is about to store a second result and
\* another call is about to make its freshness test.
C24_Witness ==
  /\ option_cache_lock = Free
  /\ DOMAIN option_cache # {}
  /\ quoteStats.returned >= 1
  /\ \E t, u \in Threads :
       /\ t # u
       /\ pc[t] = "god_lock2"
       /\ pc[u] = "god_lock1"

(***************************************************************************)
(* The locks, under SpecJobs.                                              *)
(***************************************************************************)
\* A thread is at a `with lock:` statement, about to request the lock.
RequestsTickerLock(t) ==
  \/ pc[t] \in {"at_lock", "rt_lock", "lt_lock", "mt_lock"}
  \/ /\ t \in Threads
     /\ pc[t] = "scan_source"
     /\ scan[t].source <= Len(news_sources)
     /\ news_sources[scan[t].source] = "finnhub"
RequestsDedupLock(t) ==
  /\ t \in Threads
  /\ pc[t] = "scan_article"
  /\ scan[t].a <= Len(scan[t].articles)
RequestsCacheLock(t) == pc[t] \in {"god_lock1", "god_lock2"}
RequestsScoresLock(t) == pc[t] = "ds_lock"
RequestsLock(t) ==
  \/ RequestsTickerLock(t)
  \/ RequestsDedupLock(t)
  \/ RequestsCacheLock(t)
  \/ RequestsScoresLock(t)

\* C22: a thread that requests one of the four locks holds none of them, not
\* the one it requests either; and the scans, the daily summary, the
\* commands and the quote calls never all wait: while a call is in progress,
\* some thread can take a step of its call.
C22_NoLockHeldAtRequest ==
  /\ \A t \in AllThreads : RequestsLock(t) => HoldsNoLock(t)
  /\ (\E t \in AllThreads : pc[t] # "idle") => ENABLED JobStep

\* C22 witness: a worker's command waits for ticker_list_lock, holding no
\* lock, while the scan holds the lock in the middle of its Finnhub requests.
C22_Witness ==
  /\ RequestsTickerLock("web1")
  /\ HoldsNoLock("web1")
  /\ ticker_list_lock = "sched"
  /\ pc["sched"] = "scan_finnhub"
  /\ scan["sched"].k = 2

\* The positions of send_daily_summary inside a loop over
\* daily_sentiment_scores.
ScoresIterPcs == {"ds_items", "ds_reset"}

\* C23: while send_daily_summary is in the middle of an iteration over
\* daily_sentiment_scores, no step of add_ticker or remove_ticker, nor any
\* other step, inserts a key into the dict or deletes one.
C23_ScoresKeysStableInLoop ==
  [][\A t \in Jobs :
       (pc[t] \in ScoresIterPcs /\ pc'[t] \in ScoresIterPcs)
         => EntryKeys(daily_sentiment_scores')
              = EntryKeys(daily_sentiment_scores)]_vars

====
